---------------------------- MODULE Spec2Model ----------------------------
(***************************************************************************)
(* A model of the template-safe translation pipeline of epd-translation:   *)
(* translate_jinja.py (masking, heading macros, orchestration, main) and   *)
(* translate_pdf.py (chunked translation, main).                           *)
(*                                                                         *)
(* A text is a sequence of characters.  The characters the regular         *)
(* expressions of the program tell apart are kept one by one               *)
(* ("{", "}", "%", "#", " ", quotes, backslash, ...); a word the patterns  *)
(* match as a whole ("raw", "endraw", "heading2(", "heading3(") and a tag  *)
(* the program writes or reads as a whole (the x-jinja placeholder of a    *)
(* key, the x-h2/x-h3 wrapper tags) is one element of the sequence.        *)
(* Positions are 0-based and ranges end-exclusive, as in the source.       *)
(***************************************************************************)
EXTENDS Integers, Sequences, FiniteSets, TLC

VARIABLES
    prog,        \* which entry point this behaviour runs
    pc,          \* position in that entry point
    src,         \* the input text, as read
    html_text,   \* the document text the heading stages work on
    lit_spans,   \* translate_string_literals_in_nonliteral_macros: its list spans
    lmode,       \* how the vendor answered the batched literal request
    masked,      \* mask_jinja: the text being masked
    mapping,     \* mask_jinja: key -> original substring
    counter,     \* mask_jinja: next key number
    pat,         \* mask_jinja: index into JINJA_PATTERNS of the running pass
    origin,      \* history: for each character of masked, its position in the text
                 \* given to mask_jinja (-1: a placeholder put there by this call)
    covers,      \* history: key -> <<class, first, last>>, the place of that text
                 \* the key's match covers
    max_len,     \* chunk_text: the chunk size
    chunks,      \* translate_text: the chunks to translate
    outs,        \* translate_text: the list out of translated chunks
    requests,    \* the vendor translation requests issued so far, oldest first
    vmode,       \* how the vendor answered the body request
    translated,  \* the vendor's answer to the body request / the joined chunks
    result,      \* the text the run returns
    stages,      \* history: the stages of translate_html_with_deepl run so far
    failed,      \* history: a vendor translation request has failed
    output,      \* the output file
    env,         \* a command-line run: its environment, arguments and the vendor's
                 \* glossaries
    step,        \* a command-line run: the index of the next step of main
    effects,     \* history: the work a command-line run has done, oldest first
    glossary_id, \* a command-line run: the glossary id main holds
    exit_code    \* a command-line run: -1 while it runs, then its exit status

maskVars == <<masked, mapping, counter, pat, origin, covers>>
headVars == <<html_text, lit_spans, lmode>>
pdfVars  == <<max_len, chunks, outs>>
cliVars  == <<env, step, effects, glossary_id, exit_code>>
vars == <<prog, pc, src, headVars, maskVars, pdfVars, requests, vmode, translated,
          result, stages, failed, output, cliVars>>

---------------------------------------------------------------------------
(* Bounds of the model.                                                    *)

\* the longest input of the masking runs, in fragments
MaxFrags == 3

\* the longest document of the heading runs, in items
MaxItems == 2

\* the longest document of the whole-pipeline runs, in items
MaxPipeItems == 2

\* the longest text of the PDF runs, in fragments, and the largest chunk size
MaxPdfFrags == 4
MaxChunkLen == 3

\* the most glossaries the vendor lists in the command-line runs
MaxGlossaries == 2

---------------------------------------------------------------------------
(* Sequences, Python style.                                                *)

\* t[s:e]
Slice(t, s, e) == SubSeq(t, s + 1, e)

\* the character at 0-based position i, "EOF" outside the text
Ch(t, i) == IF i >= 0 /\ i < Len(t) THEN t[i + 1] ELSE "EOF"

Min(S) == CHOOSE x \in S : \A y \in S : x <= y

RECURSIVE Flatten(_)
Flatten(ss) == IF ss = <<>> THEN <<>> ELSE Head(ss) \o Flatten(Tail(ss))

\* all sequences over S of length at most n
SeqsUpTo(S, n) == UNION {[1..k -> S] : k \in 0..n}

NoMatch == <<-1, -1>>

\* \s
IsSpace(c) == c \in {" ", "\n", "\r"}

\* the first position >= i that holds no whitespace (where a greedy \s* ends)
SkipSpace(t, i) == Min({j \in i..Len(t) : ~IsSpace(Ch(t, j))})

---------------------------------------------------------------------------
(* 1) Jinja masking.                                                       *)

\* f"J{counter:06d}"
KeyTable == <<"J000000", "J000001", "J000002", "J000003", "J000004",
              "J000005", "J000006", "J000007", "J000008", "J000009">>
KeyOf(n) == KeyTable[n + 1]

\* The placeholder text <x-jinja data-k="KEY"></x-jinja> of a key is one element
\* of a text, written as the key; KeyIn reads the key back (group 1 of the
\* pattern of unmask_jinja).
Placeholder(key) == key
IsPlaceholder(c) == \E n \in 1..Len(KeyTable) : c = KeyTable[n]
KeyIn(c) == c

\* (a variant that runs the raw pass last)
JINJA_PATTERNS_RawLast == <<"CMT", "STMT", "EXPR", "RAW">>

\* the pattern classes, in the order the passes run
JINJA_PATTERNS == <<"RAW", "CMT", "STMT", "EXPR">>

\* {%\s*word\s*%} matched at i: the end of the match, -1 when there is none
TagEnd(t, i, word) ==
    IF Ch(t, i) = "{" /\ Ch(t, i + 1) = "%"
    THEN LET a == SkipSpace(t, i + 2)
             b == SkipSpace(t, a + 1)
         IN  IF Ch(t, a) = word /\ Ch(t, b) = "%" /\ Ch(t, b + 1) = "}"
             THEN b + 2 ELSE -1
    ELSE -1

\* o1 o2 .*? c1 c2 matched at i (the shortest match): its end, or -1
PairEnd(t, i, o1, o2, c1, c2) ==
    IF Ch(t, i) = o1 /\ Ch(t, i + 1) = o2
    THEN LET J == {j \in (i + 2)..(Len(t) - 2) : Ch(t, j) = c1 /\ Ch(t, j + 1) = c2}
         IN  IF J = {} THEN -1 ELSE Min(J) + 2
    ELSE -1

\* {%\s*raw\s*%}.*?{%\s*endraw\s*%} matched at i: its end, or -1
RawEnd(t, i) ==
    LET oe == TagEnd(t, i, "raw")
    IN  IF oe = -1 THEN -1
        ELSE LET J == {j \in oe..Len(t) : TagEnd(t, j, "endraw") # -1}
             IN  IF J = {} THEN -1 ELSE TagEnd(t, Min(J), "endraw")

\* the end of the match of a class's pattern at i, or -1
MatchEnd(cls, t, i) ==
    CASE cls = "RAW"  -> RawEnd(t, i)
      [] cls = "CMT"  -> PairEnd(t, i, "{", "#", "#", "}")
      [] cls = "STMT" -> PairEnd(t, i, "{", "%", "%", "}")
      [] cls = "EXPR" -> PairEnd(t, i, "{", "{", "}", "}")

\* (a variant that takes the rightmost match)
SearchRightmost(cls, t) ==
    LET S == {i \in 0..(Len(t) - 1) : MatchEnd(cls, t, i) # -1}
        last == CHOOSE x \in S : \A y \in S : y <= x
    IN  IF S = {} THEN NoMatch ELSE <<last, MatchEnd(cls, t, last)>>

\* re.search(pat, t, flags=re.DOTALL): <<start, end>> of the leftmost match
Search(cls, t) ==
    LET S == {i \in 0..(Len(t) - 1) : MatchEnd(cls, t, i) # -1}
    IN  IF S = {} THEN NoMatch ELSE <<Min(S), MatchEnd(cls, t, Min(S))>>

\* re.sub of the placeholder pattern: every placeholder replaced by mapping[key];
\* KeyError when a key is not in the mapping
UnmaskFails(t, m) == \E i \in 1..Len(t) : IsPlaceholder(t[i]) /\ KeyIn(t[i]) \notin DOMAIN m
unmask_jinja(t, m) ==
    Flatten([i \in 1..Len(t) |-> IF IsPlaceholder(t[i]) THEN m[KeyIn(t[i])] ELSE <<t[i]>>])


---------------------------------------------------------------------------
(* 2) heading2/heading3 macro calls.                                       *)

SQ == "'"
DQ == "\""
BS == "\\"
Quotes == {SQ, DQ}
HeadingWords == {"heading2(", "heading3("}
LevelOf(w) == IF w = "heading2(" THEN "2" ELSE "3"
HeadingWord(lvl) == IF lvl = "2" THEN "heading2(" ELSE "heading3("
OpenTag(lvl) == IF lvl = "2" THEN "<x-h2>" ELSE "<x-h3>"
CloseTag(lvl) == IF lvl = "2" THEN "</x-h2>" ELSE "</x-h3>"

\* q[^q\\]*(?:\\.[^q\\]*)*q from just after the opening quote: the end of the
\* match, or -1
RECURSIVE StringScan(_, _, _)
StringScan(t, j, q) ==
    IF j >= Len(t) THEN -1
    ELSE IF Ch(t, j) = q THEN j + 1
    ELSE IF Ch(t, j) = BS
         THEN (IF j + 1 < Len(t) THEN StringScan(t, j + 2, q) ELSE -1)
         ELSE StringScan(t, j + 1, q)

\* STRING_LIT_RE matched at i: the end of the match, or -1
STRING_LIT_RE(t, i) ==
    IF Ch(t, i) \in Quotes THEN StringScan(t, i + 1, Ch(t, i)) ELSE -1

\* \s*\)\s*}} matched at e: the end of the match, or -1
CallCloseEnd(t, e) ==
    LET c == SkipSpace(t, e)
        d == SkipSpace(t, c + 1)
    IN  IF Ch(t, c) = ")" /\ Ch(t, d) = "}" /\ Ch(t, d + 1) = "}" THEN d + 2 ELSE -1

NoCall == [end |-> -1]

\* LITERAL_MACRO_RE matched at i: the match with its groups, or NoCall
LITERAL_MACRO_RE(t, i) ==
    IF Ch(t, i) = "{" /\ Ch(t, i + 1) = "{"
    THEN LET a == SkipSpace(t, i + 2)
             b == SkipSpace(t, a + 1)
             se == STRING_LIT_RE(t, b)
         IN  IF Ch(t, a) \in HeadingWords /\ se # -1 /\ CallCloseEnd(t, se) # -1
             THEN [start |-> i, end |-> CallCloseEnd(t, se), lvl |-> LevelOf(Ch(t, a)),
                   s |-> b, e |-> se]
             ELSE NoCall
    ELSE NoCall

\* ANY_MACRO_RE matched at i: the match with its groups (s, e: group arg, the
\* shortest one), or NoCall
ANY_MACRO_RE(t, i) ==
    IF Ch(t, i) = "{" /\ Ch(t, i + 1) = "{"
    THEN LET a == SkipSpace(t, i + 2)
             b == SkipSpace(t, a + 1)
             E == {e \in b..Len(t) : CallCloseEnd(t, e) # -1}
         IN  IF Ch(t, a) \in HeadingWords /\ E # {}
             THEN [start |-> i, end |-> CallCloseEnd(t, Min(E)), lvl |-> LevelOf(Ch(t, a)),
                   s |-> b, e |-> Min(E)]
             ELSE NoCall
    ELSE NoCall

\* LITERAL_MACRO_RE.finditer(t), from position k on
RECURSIVE LiteralCalls(_, _)
LiteralCalls(t, k) ==
    LET S == {i \in k..(Len(t) - 1) : LITERAL_MACRO_RE(t, i) # NoCall}
    IN  IF S = {} THEN <<>>
        ELSE LET m == LITERAL_MACRO_RE(t, Min(S)) IN <<m>> \o LiteralCalls(t, m.end)

\* ANY_MACRO_RE.finditer(t), from position k on
RECURSIVE AnyCalls(_, _)
AnyCalls(t, k) ==
    LET S == {i \in k..(Len(t) - 1) : ANY_MACRO_RE(t, i) # NoCall}
    IN  IF S = {} THEN <<>>
        ELSE LET m == ANY_MACRO_RE(t, Min(S)) IN <<m>> \o AnyCalls(t, m.end)

\* STRING_LIT_RE.finditer(t), from position k on: <<start, end>> of each match
RECURSIVE StringLits(_, _)
StringLits(t, k) ==
    LET S == {i \in k..(Len(t) - 1) : STRING_LIT_RE(t, i) # -1}
    IN  IF S = {} THEN <<>>
        ELSE <<<<Min(S), STRING_LIT_RE(t, Min(S))>>>> \o StringLits(t, STRING_LIT_RE(t, Min(S)))

\* the body of a quoted token with its escapes resolved, as Python reads a string
\* literal: \\ \' \" give the character, an unknown escape keeps its backslash
RECURSIVE Unescape(_)
Unescape(b) ==
    IF b = <<>> THEN <<>>
    ELSE IF Head(b) = BS /\ Len(b) >= 2
         THEN (IF b[2] \in {BS, SQ, DQ} THEN <<b[2]>> ELSE <<BS, b[2]>>)
                 \o Unescape(Tail(Tail(b)))
         ELSE <<Head(b)>> \o Unescape(Tail(b))

\* ast.literal_eval raises on the token: it holds a \x escape without hex digits
\* (no character of a text here is a hex digit)
RECURSIVE BadEscape(_)
BadEscape(b) ==
    IF Len(b) < 2 THEN FALSE
    ELSE IF Head(b) = BS THEN b[2] = "x" \/ BadEscape(Tail(Tail(b)))
    ELSE BadEscape(Tail(b))

\* lit.strip("\"'")
RECURSIVE StripQuotes(_)
StripQuotes(t) ==
    IF t = <<>> THEN t
    ELSE IF Head(t) \in Quotes THEN StripQuotes(Tail(t))
    ELSE IF t[Len(t)] \in Quotes THEN StripQuotes(SubSeq(t, 1, Len(t) - 1))
    ELSE t

\* try: content = ast.literal_eval(lit)  except: content = lit.strip("\"'")
LiteralContent(lit) ==
    LET body == SubSeq(lit, 2, Len(lit) - 1)
    IN  IF BadEscape(body) THEN StripQuotes(lit) ELSE Unescape(body)

\* one pass over the text that puts a backslash before each character of cs
EscapeChars(t, cs) ==
    Flatten([i \in 1..Len(t) |-> IF t[i] \in cs THEN <<BS, t[i]>> ELSE <<t[i]>>])

\* json.dumps(text) for an ASCII text without control characters
JsonDumps(t) == <<DQ>> \o EscapeChars(t, {BS, DQ}) \o <<DQ>>

\* "'" + text.replace("\\", "\\\\").replace("'", "\\'") + "'"
EscapeSingle(t) == <<SQ>> \o EscapeChars(EscapeChars(t, {BS}), {SQ}) \o <<SQ>>

RECURSIVE ReplaceLiteralFrom(_, _, _)
ReplaceLiteralFrom(t, ms, last) ==
    IF ms = <<>> THEN Slice(t, last, Len(t))
    ELSE LET m == Head(ms)
         IN  Slice(t, last, m.start)
               \o <<OpenTag(m.lvl)>> \o LiteralContent(Slice(t, m.s, m.e)) \o <<CloseTag(m.lvl)>>
               \o ReplaceLiteralFrom(t, Tail(ms), m.end)

replace_literal_heading_macros_with_tags(t) == ReplaceLiteralFrom(t, LiteralCalls(t, 0), 0)

\* re.sub(r"<x-hN>(.*?)</x-hN>", repl_hN, t): from position k on
RECURSIVE RestoreLevel(_, _, _)
RestoreLevel(t, lvl, k) ==
    LET S == {i \in k..(Len(t) - 1) :
                 Ch(t, i) = OpenTag(lvl) /\ \E j \in (i + 1)..(Len(t) - 1) : Ch(t, j) = CloseTag(lvl)}
    IN  IF S = {} THEN Slice(t, k, Len(t))
        ELSE LET i == Min(S)
                 j == Min({j \in (i + 1)..(Len(t) - 1) : Ch(t, j) = CloseTag(lvl)})
             IN  Slice(t, k, i)
                   \o <<"{", "{", " ", HeadingWord(lvl)>> \o JsonDumps(Slice(t, i + 1, j))
                   \o <<")", " ", "}", "}">>
                   \o RestoreLevel(t, lvl, j + 1)

\* (a variant that restores the level-2 tags only)
restore_heading_tags_h2_only(t) == RestoreLevel(t, "2", 0)

restore_heading_tags_to_macros(t) == RestoreLevel(RestoreLevel(t, "2", 0), "3", 0)

\* str.strip()
RECURSIVE Strip(_)
Strip(t) ==
    IF t = <<>> THEN t
    ELSE IF IsSpace(Head(t)) THEN Strip(Tail(t))
    ELSE IF IsSpace(t[Len(t)]) THEN Strip(SubSeq(t, 1, Len(t) - 1))
    ELSE t

\* arg.startswith(("'", '"')) and arg.endswith(("'", '"'))
SkipsCall(arg) == arg # <<>> /\ Head(arg) \in Quotes /\ arg[Len(arg)] \in Quotes

\* the literals the inner loop keeps of one argument: (sm.start(), sm.end(), lit)
\* of each match of STRING_LIT_RE whose content is not empty
ArgSpanLiterals(arg) ==
    LET all == StringLits(arg, 0)
        kept == SelectSeq(all, LAMBDA p : LiteralContent(Slice(arg, p[1], p[2])) # <<>>)
    IN  [i \in 1..Len(kept) |-> <<kept[i][1], kept[i][2], Slice(arg, kept[i][1], kept[i][2])>>]

\* the list spans after the first loop: (m.start("arg"), m.end("arg"), literals)
\* of each call that is not skipped and keeps a literal
RECURSIVE SpansOf(_, _)
SpansOf(t, ms) ==
    IF ms = <<>> THEN <<>>
    ELSE LET m == Head(ms)
             arg == Strip(Slice(t, m.s, m.e))
             lits == ArgSpanLiterals(arg)
         IN  (IF SkipsCall(arg) \/ lits = <<>> THEN <<>> ELSE << <<m.s, m.e, lits>> >>)
                \o SpansOf(t, Tail(ms))

\* the list to_translate after the first loop
RECURSIVE ToTranslate(_)
ToTranslate(sps) ==
    IF sps = <<>> THEN <<>>
    ELSE [i \in 1..Len(Head(sps)[3]) |-> LiteralContent(Head(sps)[3][i][3])]
            \o ToTranslate(Tail(sps))

\* the inner loop of the second pass: the argument with each kept literal replaced
\* by the next translation, quoted as the literal was
RECURSIVE SpliceArg(_, _, _, _)
SpliceArg(arg_text, lits, res, a_last) ==
    IF lits = <<>> THEN Slice(arg_text, a_last, Len(arg_text))
    ELSE LET l == Head(lits)
             new_text == Head(res)
         IN  Slice(arg_text, a_last, l[1])
               \o (IF Head(l[3]) = SQ THEN EscapeSingle(new_text) ELSE JsonDumps(new_text))
               \o SpliceArg(arg_text, Tail(lits), Tail(res), l[2])

\* the second pass: the text with every span's argument spliced
RECURSIVE SpliceSpans(_, _, _, _)
SpliceSpans(t, sps, res, last) ==
    IF sps = <<>> THEN Slice(t, last, Len(t))
    ELSE LET sp == Head(sps)
             n == Len(sp[3])
         IN  Slice(t, last, sp[1])
               \o SpliceArg(Slice(t, sp[1], sp[2]), sp[3], SubSeq(res, 1, n), 0)
               \o SpliceSpans(t, Tail(sps), SubSeq(res, n + 1, Len(res)), sp[2])

\* The vendor's answers to a batched literal request, one text per text sent: the
\* texts as they are, the i-th text replaced by a word that tells its place, the
\* texts with quotes and a backslash put around them.
IndexWords == <<"T1", "T2", "T3", "T4", "T5", "T6", "T7", "T8", "T9", "T10", "T11", "T12">>
LiteralModes == {"same", "indexed", "quoted"}
VendorList(mode, list) ==
    [i \in 1..Len(list) |->
        CASE mode = "same" -> list[i]
          [] mode = "indexed" -> <<IndexWords[i]>>
          [] mode = "quoted" -> <<SQ>> \o list[i] \o <<BS, DQ>>]


---------------------------------------------------------------------------
(* 3) The vendor, as the program sees it.                                  *)

WrapperTags == {"<x-h2>", "</x-h2>", "<x-h3>", "</x-h3>"}
IsTag(c) == IsPlaceholder(c) \/ c \in WrapperTags

\* The vendor's answers to a body request that keep every tag verbatim: the text
\* as it is, the text in reverse order, the text with every run of prose rewritten.
RECURSIVE Reverse(_)
Reverse(t) == IF t = <<>> THEN <<>> ELSE Reverse(Tail(t)) \o <<Head(t)>>
Rewrite(t) ==
    Flatten([i \in 1..Len(t) |->
        IF IsTag(t[i]) THEN <<t[i]>>
        ELSE IF i = 1 \/ IsTag(t[i - 1]) THEN <<"t">> ELSE <<>>])
VendorModes == {"same", "reversed", "rewritten"}
VendorBody(mode, t) ==
    CASE mode = "same" -> t
      [] mode = "reversed" -> Reverse(t)
      [] mode = "rewritten" -> Rewrite(t)

---------------------------------------------------------------------------
(* 4) translate_pdf.py: chunking.                                          *)

\* "\n\n".join(parts)
RECURSIVE Join(_)
Join(parts) ==
    IF parts = <<>> THEN <<>>
    ELSE IF Len(parts) = 1 THEN Head(parts)
    ELSE Head(parts) \o <<"\n", "\n">> \o Join(Tail(parts))

\* text.split("\n\n")
RECURSIVE Split(_)
Split(t) ==
    LET S == {i \in 0..(Len(t) - 2) : Ch(t, i) = "\n" /\ Ch(t, i + 1) = "\n"}
    IN  IF S = {} THEN <<t>>
        ELSE <<Slice(t, 0, Min(S))>> \o Split(Slice(t, Min(S) + 2, Len(t)))

\* text.replace("\r", "")
DropCR(t) == SelectSeq(t, LAMBDA c : c # "\r")

\* (a variant that forgets the paragraphs still held in current when the loop ends)
RECURSIVE ChunkLoopNoTail(_, _, _, _, _)
ChunkLoopNoTail(parts, cs, current, length, maxlen) ==
    IF parts = <<>>
    THEN cs
    ELSE LET part == Strip(Head(parts))
         IN  IF part = <<>> THEN ChunkLoopNoTail(Tail(parts), cs, current, length, maxlen)
             ELSE IF length + Len(part) + 2 > maxlen
                  THEN ChunkLoopNoTail(Tail(parts), Append(cs, Join(current)), <<part>>,
                                       Len(part), maxlen)
                  ELSE ChunkLoopNoTail(Tail(parts), cs, Append(current, part),
                                       length + Len(part) + 2, maxlen)

\* the for loop of chunk_text and the lines after it
RECURSIVE ChunkLoop(_, _, _, _, _)
ChunkLoop(parts, cs, current, length, maxlen) ==
    IF parts = <<>>
    THEN (IF current # <<>> THEN Append(cs, Join(current)) ELSE cs)
    ELSE LET part == Strip(Head(parts))
         IN  IF part = <<>> THEN ChunkLoop(Tail(parts), cs, current, length, maxlen)
             ELSE IF length + Len(part) + 2 > maxlen
                  THEN ChunkLoop(Tail(parts), Append(cs, Join(current)), <<part>>,
                                 Len(part), maxlen)
                  ELSE ChunkLoop(Tail(parts), cs, Append(current, part),
                                 length + Len(part) + 2, maxlen)

chunk_text(text, maxlen) ==
    IF Len(text) <= maxlen THEN <<text>>
    ELSE ChunkLoop(Split(DropCR(text)), <<>>, <<>>, 0, maxlen)

---------------------------------------------------------------------------
(* 5) The runs.                                                            *)

NoFile == [written |-> FALSE, text |-> <<>>]

HeadIdle == html_text = <<>> /\ lit_spans = <<>> /\ lmode = "none"
MaskIdle == /\ masked = <<>> /\ mapping = <<>> /\ counter = 0 /\ pat = 1
            /\ origin = <<>> /\ covers = <<>>
PdfIdle  == max_len = 0 /\ chunks = <<>> /\ outs = <<>>
NoGlossary == "None"
CliIdle  == /\ env = <<>> /\ step = 0 /\ effects = <<>> /\ glossary_id = NoGlossary
            /\ exit_code = -1
RunIdle  == /\ requests = <<>> /\ vmode = "none" /\ translated = <<>> /\ result = <<>>
            /\ stages = <<>> /\ failed = FALSE /\ output = NoFile

\* The inputs of the masking runs: up to MaxFrags fragments, each a delimiter, a
\* whole construct, a raw tag, a letter, or text shaped like the first placeholder.
MaskFragments ==
    { <<"{", "{">>, <<"}", "}">>, <<"{", "%">>, <<"%", "}">>, <<"{", "#">>, <<"#", "}">>,
      <<"{", "{", "a", "}", "}">>, <<"{", "%", "a", "%", "}">>, <<"{", "#", "a", "#", "}">>,
      <<"{", "%", " ", "raw", "%", "}">>, <<"{", "%", "endraw", " ", "%", "}">>,
      <<"a">>, <<Placeholder(KeyOf(0))>> }
MaskInputs == {Flatten(fs) : fs \in SeqsUpTo(MaskFragments, MaxFrags)}

\* the first lines of mask_jinja, called on the text t
MaskStart(t) ==
    /\ masked' = t
    /\ mapping' = <<>>
    /\ counter' = 0
    /\ pat' = 1
    /\ origin' = [i \in 1..Len(t) |-> i - 1]
    /\ covers' = <<>>

\* a run of mask_jinja, the vendor and unmask_jinja on a text
InitMask ==
    /\ prog = "mask"
    /\ pc = "mask"
    /\ src \in MaskInputs
    /\ masked = src
    /\ mapping = <<>>
    /\ counter = 0
    /\ pat = 1
    /\ origin = [i \in 1..Len(src) |-> i - 1]
    /\ covers = <<>>
    /\ HeadIdle /\ PdfIdle /\ RunIdle /\ CliIdle

\* one iteration of the while loop that finds a match and replaces it
MaskReplace ==
    /\ pc = "mask"
    /\ LET m == Search(JINJA_PATTERNS[pat], masked)
           key == KeyOf(counter)
       IN  /\ m # NoMatch
           /\ mapping' = (key :> Slice(masked, m[1], m[2])) @@ mapping
           /\ masked' = Slice(masked, 0, m[1]) \o <<Placeholder(key)>>
                          \o Slice(masked, m[2], Len(masked))
           /\ origin' = Slice(origin, 0, m[1]) \o <<-1>>
                          \o Slice(origin, m[2], Len(origin))
           /\ covers' = (key :> <<JINJA_PATTERNS[pat], origin[m[1] + 1], origin[m[2]]>>) @@ covers
    /\ counter' = counter + 1
    /\ UNCHANGED <<cliVars, prog, pc, src, pat, headVars, pdfVars, requests, vmode, translated,
                   result, stages, failed, output>>

\* (a variant that leaves the loop of a class whether or not a match is left)
MaskBreakEarly ==
    /\ pc = "mask"
    /\ IF pat < Len(JINJA_PATTERNS)
       THEN pat' = pat + 1 /\ pc' = pc
       ELSE pat' = pat /\ pc' = "masked"
    /\ UNCHANGED <<cliVars, prog, src, masked, mapping, counter, origin, covers, headVars, pdfVars,
                   requests, vmode, translated, result, stages, failed, output>>

\* (a variant that returns from mask_jinja at the first class without a match)
MaskReturn ==
    /\ pc = "mask"
    /\ Search(JINJA_PATTERNS[pat], masked) = NoMatch
    /\ pat' = pat
    /\ pc' = "masked"
    /\ UNCHANGED <<cliVars, prog, src, masked, mapping, counter, origin, covers, headVars, pdfVars,
                   requests, vmode, translated, result, stages, failed, output>>

\* the iteration that finds no match: break, and the for loop goes on to the
\* next pattern or ends
MaskBreak ==
    /\ pc = "mask"
    /\ Search(JINJA_PATTERNS[pat], masked) = NoMatch
    /\ IF pat < Len(JINJA_PATTERNS)
       THEN pat' = pat + 1 /\ pc' = pc
       ELSE pat' = pat /\ pc' = "masked"
    /\ UNCHANGED <<cliVars, prog, src, masked, mapping, counter, origin, covers, headVars, pdfVars,
                   requests, vmode, translated, result, stages, failed, output>>

\* translator.translate_text(masked, tag_handling="html", ...) and its answer
BodyRequest ==
    /\ pc = "masked"
    /\ \E mode \in VendorModes :
         /\ vmode' = mode
         /\ translated' = VendorBody(mode, masked)
    /\ requests' = Append(requests, [kind |-> "body", payload |-> masked])
    /\ stages' = Append(stages, "request")
    /\ pc' = "translated"
    /\ UNCHANGED <<cliVars, prog, src, headVars, maskVars, pdfVars, result, failed, output>>

\* (a variant that leaves a placeholder with an unknown key in place)
UnmaskLenient ==
    /\ pc = "translated"
    /\ pc' = "unmasked"
    /\ result' = Flatten([i \in 1..Len(translated) |->
                    IF translated[i] \in DOMAIN mapping THEN mapping[translated[i]]
                    ELSE <<translated[i]>>])
    /\ stages' = Append(stages, "unmask")
    /\ UNCHANGED <<cliVars, prog, src, headVars, maskVars, pdfVars, requests, vmode, translated,
                   failed, output>>

\* unmask_jinja(translated_masked, map_jinja)
Unmask ==
    /\ pc = "translated"
    /\ IF UnmaskFails(translated, mapping)
       THEN pc' = "keyerror" /\ result' = result
       ELSE pc' = "unmasked" /\ result' = unmask_jinja(translated, mapping)
    /\ stages' = Append(stages, "unmask")
    /\ UNCHANGED <<cliVars, prog, src, headVars, maskVars, pdfVars, requests, vmode, translated,
                   failed, output>>

NextMask == MaskReplace \/ MaskBreak \/ BodyRequest \/ Unmask

SpecMask == InitMask /\ [][NextMask]_vars

\* A step of the loops of mask_jinja, told by what it does to the position in the
\* code: MaskReplace adds one to the counter, MaskBreak moves to the next pattern
\* or leaves the function.  Inside the function one of the two is always possible
\* (a match is found or it is not), so the step is possible exactly when pc = "mask".
MaskLoop ==
    /\ pc = "mask"
    /\ \E c \in {counter, counter + 1}, p \in {pat, pat + 1}, q \in {"mask", "masked"} :
         /\ <<c, p, q>> # <<counter, pat, pc>>
         /\ counter' = c /\ pat' = p /\ pc' = q

\* the same runs, with the loops of mask_jinja going on as long as they can (the
\* call is sequential code that nothing suspends)
SpecMaskFair == SpecMask /\ WF_<<pc, pat, counter>>(MaskLoop)

\* The documents of the heading runs: up to MaxItems items, each a heading call or
\* a piece of prose.
Call(lvl, arg, close) == <<"{", "{", " ", HeadingWord(lvl)>> \o arg \o close
StdClose == <<")", " ", "}", "}">>
HeadingItems ==
    { \* calls whose whole argument is one string literal
      Call("2", <<DQ, "x", DQ>>, StdClose),
      Call("3", <<SQ, "x", SQ>>, StdClose),
      <<"{", "{", "heading2(", " ", DQ, "y", DQ, " ", ")", "}", "}">>,
      Call("3", <<DQ, BS, DQ, DQ>>, StdClose),
      Call("2", <<SQ, BS, "x", SQ>>, StdClose),
      Call("3", <<DQ, DQ>>, StdClose),
      Call("2", <<DQ, SQ, "y", SQ, "x", ")", "}", "}", DQ>>, StdClose),
      Call("2", <<DQ, "</x-h2>", DQ>>, StdClose),
      \* calls whose argument is an expression
      Call("3", <<"x", " ", DQ, " ", "y", DQ>>, StdClose),
      Call("2", <<SQ, "y", BS, SQ, SQ, "x">>, StdClose),
      Call("2", <<DQ, "x", DQ, "x", SQ, "y", SQ>>, StdClose),
      Call("3", <<"x", SQ, SQ, DQ, "y", DQ>>, StdClose),
      Call("2", <<"x">>, StdClose),
      Call("3", <<"x">>, <<")", "x", " ", "}", "}">>),
      \* prose
      <<"x">>,
      <<DQ, "y", DQ>> }
HeadingInputs == {Flatten(is) : is \in SeqsUpTo(HeadingItems, MaxItems)}

\* a run of one heading stage on a document: the embedded-literal translator, or
\* the literal-call rewriter and its inverse
InitHeading ==
    /\ prog = "heading"
    /\ pc = "start"
    /\ src \in HeadingInputs
    /\ html_text = src
    /\ lit_spans = <<>>
    /\ lmode = "none"
    /\ MaskIdle /\ PdfIdle /\ RunIdle /\ CliIdle

\* translate_string_literals_in_nonliteral_macros, the vendor's answer included
Embed ==
    /\ pc = "start"
    /\ LET sps == SpansOf(html_text, AnyCalls(html_text, 0))
           to_translate == ToTranslate(sps)
       IN  /\ lit_spans' = sps
           /\ IF to_translate = <<>>
              THEN /\ html_text' = html_text
                   /\ requests' = requests
                   /\ lmode' = lmode
              ELSE \E mode \in LiteralModes :
                     /\ lmode' = mode
                     /\ requests' = Append(requests, [kind |-> "literals", payload |-> to_translate])
                     /\ html_text' = SpliceSpans(html_text, sps, VendorList(mode, to_translate), 0)
    /\ pc' = "embedded"
    /\ stages' = Append(stages, "embed")
    /\ UNCHANGED <<cliVars, prog, src, maskVars, pdfVars, vmode, translated, result, failed, output>>

\* replace_literal_heading_macros_with_tags
Wrap ==
    /\ pc = IF prog = "heading" THEN "start" ELSE "embedded"
    /\ html_text' = replace_literal_heading_macros_with_tags(html_text)
    /\ pc' = "wrapped"
    /\ stages' = Append(stages, "wrap")
    /\ UNCHANGED <<cliVars, prog, src, lit_spans, lmode, maskVars, pdfVars, requests, vmode,
                   translated, result, failed, output>>

\* restore_heading_tags_to_macros, on the wrapped text as it is (a translation
\* stage that changes nothing)
RestoreWrapped ==
    /\ prog = "heading"
    /\ pc = "wrapped"
    /\ result' = restore_heading_tags_to_macros(html_text)
    /\ pc' = "restored"
    /\ stages' = Append(stages, "restore")
    /\ UNCHANGED <<cliVars, prog, src, headVars, maskVars, pdfVars, requests, vmode, translated,
                   failed, output>>

NextHeading == Embed \/ Wrap \/ RestoreWrapped

SpecHeading == InitHeading /\ [][NextHeading]_vars

\* The documents of the whole-pipeline runs: up to MaxPipeItems items, each a heading
\* call, a template construct, prose, or text shaped like the first placeholder.
PipeItems ==
    { Call("2", <<DQ, "x", DQ>>, StdClose),
      Call("3", <<SQ, "y", SQ>>, StdClose),
      Call("3", <<"x", " ", DQ, "y", DQ>>, StdClose),
      Call("2", <<"x">>, StdClose),
      <<"{", "%", "a", "%", "}">>,
      <<"{", "#", "a", "#", "}">>,
      <<"{", "%", " ", "raw", "%", "}", "{", "{", "a", "}", "}", "{", "%", "endraw", " ", "%", "}">>,
      <<"{", "{">>,
      <<"x">>,
      <<Placeholder(KeyOf(0))>> }
PipeInputs == {Flatten(is) : is \in SeqsUpTo(PipeItems, MaxPipeItems)}

\* translate_jinja.main after the input file is read and the glossary looked up:
\* about to call translate_html_with_deepl(raw, ...)
InitPipe ==
    /\ prog = "jinja"
    /\ pc = "start"
    /\ src \in PipeInputs
    /\ html_text = src
    /\ lit_spans = <<>>
    /\ lmode = "none"
    /\ MaskIdle /\ PdfIdle /\ RunIdle /\ CliIdle

\* translate_string_literals_in_nonliteral_macros when its vendor request raises
EmbedFails ==
    /\ prog = "jinja"
    /\ pc = "start"
    /\ LET to_translate == ToTranslate(SpansOf(html_text, AnyCalls(html_text, 0)))
       IN  /\ to_translate # <<>>
           /\ requests' = Append(requests, [kind |-> "literals", payload |-> to_translate])
    /\ failed' = TRUE
    /\ pc' = "aborted"
    /\ UNCHANGED <<cliVars, prog, src, headVars, maskVars, pdfVars, vmode, translated, result,
                   stages, output>>

\* masked, map_jinja = mask_jinja(html_text): the call and its first lines
BeginMask ==
    /\ prog = "jinja"
    /\ pc = "wrapped"
    /\ MaskStart(html_text)
    /\ pc' = "mask"
    /\ stages' = Append(stages, "mask")
    /\ UNCHANGED <<cliVars, prog, src, headVars, pdfVars, requests, vmode, translated, result,
                   failed, output>>

\* the body request when it raises
BodyFails ==
    /\ prog = "jinja"
    /\ pc = "masked"
    /\ requests' = Append(requests, [kind |-> "body", payload |-> masked])
    /\ failed' = TRUE
    /\ pc' = "aborted"
    /\ UNCHANGED <<cliVars, prog, src, headVars, maskVars, pdfVars, vmode, translated, result,
                   stages, output>>

\* final_text = restore_heading_tags_to_macros(unmasked); return final_text
Restore ==
    /\ prog = "jinja"
    /\ pc = "unmasked"
    /\ result' = restore_heading_tags_to_macros(result)
    /\ pc' = "restored"
    /\ stages' = Append(stages, "restore")
    /\ UNCHANGED <<cliVars, prog, src, headVars, maskVars, pdfVars, requests, vmode, translated,
                   failed, output>>

\* outp.write_text(result, encoding="utf-8")
WriteOutput ==
    /\ prog = "jinja"
    /\ pc = "restored"
    /\ output' = [written |-> TRUE, text |-> result]
    /\ pc' = "done"
    /\ UNCHANGED <<cliVars, prog, src, headVars, maskVars, pdfVars, requests, vmode, translated,
                   result, stages, failed>>

NextPipe ==
    \/ Embed \/ EmbedFails \/ Wrap \/ BeginMask \/ MaskReplace \/ MaskBreak
    \/ BodyRequest \/ BodyFails \/ Unmask \/ Restore \/ WriteOutput

SpecPipe == InitPipe /\ [][NextPipe]_vars

\* The texts of the PDF runs: up to MaxPdfFrags fragments, each a word, a newline,
\* a paragraph separator, a blank or a carriage return; read_pdf_text strips the
\* text it returns.
PdfFragments ==
    { <<"a">>, <<"b", "b">>, <<"\n", "\n">>, <<"\n">>, <<" ">>, <<"\r">> }
PdfInputs == {Strip(Flatten(fs)) : fs \in SeqsUpTo(PdfFragments, MaxPdfFrags)}

\* translate_pdf.main after the PDF is read and the glossary looked up: about to
\* translate original_text.  The chunk size (4500 in translate_text) is scaled to
\* the size of these texts.
InitPdf ==
    /\ prog = "pdf"
    /\ pc = "start"
    /\ src \in PdfInputs
    /\ max_len \in 1..MaxChunkLen
    /\ chunks = <<>>
    /\ outs = <<>>
    /\ HeadIdle /\ MaskIdle /\ RunIdle /\ CliIdle

\* translate_text(original_text, ...) if original_text else "": up to the for loop
PdfStart ==
    /\ prog = "pdf"
    /\ pc = "start"
    /\ IF src = <<>>
       THEN chunks' = chunks /\ pc' = "joined"
       ELSE chunks' = chunk_text(src, max_len) /\ pc' = "chunks"
    /\ UNCHANGED <<cliVars, prog, src, max_len, outs, headVars, maskVars, requests, vmode,
                   translated, result, stages, failed, output>>

\* the vendor's answers to a chunk request
ChunkModes == {"same", "rewritten"}
VendorChunk(mode, ch) == IF mode = "same" THEN ch ELSE <<"t">>

\* one iteration of the for loop of translate_text
PdfChunk ==
    /\ pc = "chunks"
    /\ Len(outs) < Len(chunks)
    /\ LET ch == chunks[Len(outs) + 1]
       IN  /\ requests' = Append(requests, [kind |-> "chunk", payload |-> ch])
           /\ \E mode \in ChunkModes : outs' = Append(outs, VendorChunk(mode, ch))
    /\ UNCHANGED <<cliVars, prog, pc, src, max_len, chunks, headVars, maskVars, vmode, translated,
                   result, stages, failed, output>>

\* (a variant that swallows the failure of a chunk's request and goes on)
PdfChunkSkipped ==
    /\ pc = "chunks"
    /\ Len(outs) < Len(chunks)
    /\ requests' = Append(requests, [kind |-> "chunk", payload |-> chunks[Len(outs) + 1]])
    /\ outs' = Append(outs, <<>>)
    /\ failed' = TRUE
    /\ UNCHANGED <<cliVars, prog, pc, src, max_len, chunks, headVars, maskVars, vmode, translated,
                   result, stages, output>>

\* an iteration whose request raises
PdfChunkFails ==
    /\ pc = "chunks"
    /\ Len(outs) < Len(chunks)
    /\ requests' = Append(requests, [kind |-> "chunk", payload |-> chunks[Len(outs) + 1]])
    /\ failed' = TRUE
    /\ pc' = "aborted"
    /\ UNCHANGED <<cliVars, prog, src, pdfVars, headVars, maskVars, vmode, translated, result,
                   stages, output>>

\* return "\n\n".join(out)
PdfJoin ==
    /\ pc = "chunks"
    /\ Len(outs) = Len(chunks)
    /\ translated' = Join(outs)
    /\ pc' = "joined"
    /\ UNCHANGED <<cliVars, prog, src, pdfVars, headVars, maskVars, requests, vmode, result,
                   stages, failed, output>>

NoContent == <<"[No extractable content found.]">>

\* write_pdf(translated if translated else "[No extractable content found.]", pdf_out)
PdfWrite ==
    /\ pc = "joined"
    /\ output' = [written |-> TRUE,
                  text |-> IF translated # <<>> THEN translated ELSE NoContent]
    /\ pc' = "done"
    /\ UNCHANGED <<cliVars, prog, src, pdfVars, headVars, maskVars, requests, vmode, translated,
                   result, stages, failed>>

NextPdf == PdfStart \/ PdfChunk \/ PdfChunkFails \/ PdfJoin \/ PdfWrite

SpecPdf == InitPdf /\ [][NextPdf]_vars

\* a run of either entry point
SpecRun == (InitPipe \/ InitPdf) /\ [][NextPipe \/ NextPdf]_vars

---------------------------------------------------------------------------
(* 6) The command-line entry points: what each main does, in order.        *)

Entries == {"translate_jinja", "translate_pdf", "translate_rendered_html",
            "create_glossaries", "simple_jinja_dev_server"}

\* str.upper() on the language codes of these runs
Upper(c) == CASE c = "en" -> "EN" [] c = "de" -> "DE" [] OTHER -> c

\* the --src and --tgt arguments of these runs
ArgSrc == "en"
ArgTgt == "de"

\* f"epd-{args.src.upper()}-{args.tgt.upper()}" if args.glossary.lower() == "auto"
\* else args.glossary
GlossaryName(arg) ==
    IF arg = "auto"
    THEN (IF <<Upper(ArgSrc), Upper(ArgTgt)>> = <<"EN", "DE">> THEN "epd-EN-DE" ELSE "epd-other")
    ELSE arg

\* the glossaries the vendor may hold, and the id of the i-th one it lists
GlossaryInfos == [name : {"epd-EN-DE", "mine"}, source_lang : {"en", "de"},
                  target_lang : {"de", "en"}]
IdTable == <<"g1", "g2", "g3", "g4">>

\* (a variant that looks at the name only)
find_glossary_by_name(list, name, s, t) ==
    LET M == {i \in 1..Len(list) : list[i].name = name}
    IN  IF M = {} THEN NoGlossary ELSE IdTable[Min(M)]

\* find_glossary_id / find_glossary: the id of the first listed glossary whose
\* name and languages all match, None if there is none
find_glossary_id(list, name, s, t) ==
    LET M == {i \in 1..Len(list) :
                /\ list[i].name = name
                /\ Upper(list[i].source_lang) = Upper(s)
                /\ Upper(list[i].target_lang) = Upper(t)}
    IN  IF M = {} THEN NoGlossary ELSE IdTable[Min(M)]

\* the steps of each main, in the order of its source
JinjaMain == <<"check_key", "read_input", "find_glossary", "translate", "write_output">>
PdfMain == <<"check_key", "read_input", "find_glossary", "translate", "write_output">>
RenderedMain == <<"check_key", "find_glossary", "read_input", "translate", "write_output">>
GlossariesMain == <<"check_key", "fetch_csv", "write_csv", "sync_glossary">>
ServerMain(translate) ==
    <<"mkdir_outdir", "render_template", "write_src_html">>
        \o (IF translate THEN <<"check_key", "find_glossary", "translate", "write_output">>
            ELSE <<>>)
        \o <<"write_pdf">>
Main ==
    CASE prog = "translate_jinja" -> JinjaMain
      [] prog = "translate_pdf" -> PdfMain
      [] prog = "translate_rendered_html" -> RenderedMain
      [] prog = "create_glossaries" -> GlossariesMain
      [] prog = "simple_jinja_dev_server" -> ServerMain(env.translate)

\* the steps that read input, render, write a file or directory, or use the network
WorkSteps == {"read_input", "mkdir_outdir", "render_template", "write_src_html",
              "fetch_csv", "write_csv", "sync_glossary", "write_output", "write_pdf"}

AtStep(name) == pc = "main" /\ step <= Len(Main) /\ Main[step] = name

\* a command-line run, about to enter main: the credential is set or not, the
\* --glossary argument is none, auto or a name, the vendor's glossary listing works
\* or raises, and (translate_pdf) the PDF holds text or not
InitCli ==
    /\ prog \in Entries
    /\ pc = "main"
    /\ env \in [key : BOOLEAN, translate : BOOLEAN, glossary : {"none", "auto", "mine"},
                listing_ok : BOOLEAN,
                listing : SeqsUpTo(GlossaryInfos, MaxGlossaries),
                has_text : BOOLEAN]
    /\ prog # "simple_jinja_dev_server" => env.translate
    /\ prog # "translate_pdf" => env.has_text
    /\ step = 1
    /\ effects = <<>>
    /\ glossary_id = NoGlossary
    /\ exit_code = -1
    /\ src = <<>>
    /\ HeadIdle /\ MaskIdle /\ PdfIdle /\ RunIdle

\* if "DEEPL_API_KEY" not in os.environ: exit with a failure status
CheckKey ==
    /\ AtStep("check_key")
    /\ IF env.key
       THEN step' = step + 1 /\ pc' = pc /\ exit_code' = exit_code
       ELSE step' = step /\ pc' = "exited" /\ exit_code' = 1
    /\ UNCHANGED <<env, effects, glossary_id, prog, src, headVars, maskVars, pdfVars,
                   requests, vmode, translated, result, stages, failed, output>>

\* a step that reads input, renders, writes or uses the network
Work ==
    /\ pc = "main"
    /\ step <= Len(Main)
    /\ Main[step] \in WorkSteps
    /\ effects' = Append(effects, Main[step])
    /\ step' = step + 1
    /\ UNCHANGED <<env, glossary_id, exit_code, prog, pc, src, headVars, maskVars, pdfVars,
                   requests, vmode, translated, result, stages, failed, output>>

\* glossary_id = None; if args.glossary.lower() != "none": try the lookup, and go on
\* without a glossary when it raises
FindGlossary ==
    /\ AtStep("find_glossary")
    /\ IF env.glossary = "none"
       THEN effects' = effects /\ glossary_id' = NoGlossary
       ELSE /\ effects' = Append(effects, "list_glossaries")
            /\ glossary_id' = IF env.listing_ok
                              THEN find_glossary_id(env.listing, GlossaryName(env.glossary),
                                                    ArgSrc, ArgTgt)
                              ELSE NoGlossary
    /\ step' = step + 1
    /\ UNCHANGED <<env, exit_code, prog, pc, src, headVars, maskVars, pdfVars,
                   requests, vmode, translated, result, stages, failed, output>>

\* the translation, with glossary=glossary_id (translate_pdf: only if there is text)
Translate ==
    /\ AtStep("translate")
    /\ IF env.has_text
       THEN /\ effects' = Append(effects, "translate")
            /\ requests' = Append(requests, [kind |-> "translate", payload |-> <<>>,
                                             glossary |-> glossary_id])
       ELSE effects' = effects /\ requests' = requests
    /\ step' = step + 1
    /\ UNCHANGED <<env, glossary_id, exit_code, prog, pc, src, headVars, maskVars, pdfVars,
                   vmode, translated, result, stages, failed, output>>

\* main returns
Finish ==
    /\ pc = "main"
    /\ step > Len(Main)
    /\ pc' = "exited"
    /\ exit_code' = 0
    /\ UNCHANGED <<env, step, effects, glossary_id, prog, src, headVars, maskVars, pdfVars,
                   requests, vmode, translated, result, stages, failed, output>>

NextCli == CheckKey \/ Work \/ FindGlossary \/ Translate \/ Finish

SpecCli == InitCli /\ [][NextCli]_vars

---------------------------------------------------------------------------
(* Properties of masking.                                                  *)

HasPlaceholder(t) == \E i \in 1..Len(t) : IsPlaceholder(t[i])

\* C1: for any input text, unmask_jinja applied to what mask_jinja returned gives
\* the input back exactly, nested constructs included.  Stated here for the inputs
\* that hold no placeholder-shaped text: the run ends with a result, and the result
\* is the input.
C1_RoundTrip ==
    (vmode = "same" /\ pc \in {"unmasked", "keyerror"} /\ ~HasPlaceholder(src))
        => (pc = "unmasked" /\ result = src)

\* the raw blocks of a text: the successive matches of the raw pattern from k on
RECURSIVE RawBlocksFrom(_, _)
RawBlocksFrom(t, k) ==
    LET S == {i \in k..(Len(t) - 1) : RawEnd(t, i) # -1}
    IN  IF S = {} THEN {}
        ELSE {<<Min(S), RawEnd(t, Min(S))>>} \cup RawBlocksFrom(t, RawEnd(t, Min(S)))

\* the body of the raw block at b: the text between its opening and its closing tag
RawBody(t, b) ==
    LET oe == TagEnd(t, b[1], "raw")
        cs == Min({j \in oe..Len(t) : TagEnd(t, j, "endraw") # -1})
    IN  Slice(t, oe, cs)

HasConstruct(t) == \E cls \in {"CMT", "STMT", "EXPR"} : Search(cls, t) # NoMatch

\* the keys whose match covers exactly the place b of the input
KeysAt(b) == {k \in DOMAIN covers : covers[k][2] = b[1] /\ covers[k][3] = b[2] - 1}
\* the keys whose match lies inside the place b of the input, and is not all of it
KeysInside(b) ==
    {k \in DOMAIN covers : b[1] <= covers[k][2] /\ covers[k][3] <= b[2] - 1} \ KeysAt(b)

\* C2: a raw block whose body holds text matching the comment, statement or
\* expression pattern gets exactly one placeholder, mapped to the whole text of
\* the block, once the raw pass is over; and at no time is there a mapping
\* entry for a construct inside the block.
C2_RawOpaque ==
    \A b \in RawBlocksFrom(src, 0) :
        HasConstruct(RawBody(src, b)) =>
            /\ KeysInside(b) = {}
            /\ (pc # "mask" \/ pat > 1) =>
                 /\ Cardinality(KeysAt(b)) = 1
                 /\ \A k \in KeysAt(b) :
                      /\ k \in DOMAIN mapping
                      /\ mapping[k] = Slice(src, b[1], b[2])
                      /\ covers[k][1] = "RAW"

\* C2's case: masking has ended on an input with a raw block whose body holds a
\* construct, and the block's text is what the mapping holds.
C2_Witness ==
    /\ pc = "masked"
    /\ \E b \in RawBlocksFrom(src, 0) :
          /\ HasConstruct(RawBody(src, b))
          /\ \E k \in DOMAIN mapping : mapping[k] = Slice(src, b[1], b[2])

\* C9: whatever the vendor did to the text around the placeholder tags it kept,
\* after unmask_jinja every placeholder is replaced by the substring recorded for
\* its key and no placeholder tag remains.  (Inputs without placeholder-shaped
\* text.)
C9_NoPlaceholderLeft ==
    (pc \in {"unmasked", "keyerror"} /\ ~HasPlaceholder(src))
        => /\ pc = "unmasked"
           /\ result = Flatten([i \in 1..Len(translated) |->
                  IF translated[i] \in DOMAIN mapping THEN mapping[translated[i]]
                  ELSE <<translated[i]>>])
           /\ ~HasPlaceholder(result)

\* C13: unmask_jinja on a text with a well-formed placeholder tag whose key is not
\* in the mapping fails and returns no text: the placeholder is neither left in
\* place nor replaced by anything.
HasUnknownKey ==
    \E i \in 1..Len(translated) :
        /\ \E n \in 1..Len(KeyTable) : translated[i] = KeyTable[n]
        /\ translated[i] \notin DOMAIN mapping
C13_UnknownKeyFails ==
    (pc \in {"unmasked", "keyerror"} /\ HasUnknownKey)
        => (pc = "keyerror" /\ result = <<>>)

\* C13's case: unmask_jinja has run on a text with a placeholder of an unknown key.
C13_Witness ==
    /\ pc = "keyerror"
    /\ HasUnknownKey

\* the number of a key, and the place of a class in the order raw, comment,
\* statement, expression
KeyNum(k) == CHOOSE n \in 0..(Len(KeyTable) - 1) : KeyTable[n + 1] = k
ClassRank(cls) == CHOOSE i \in 1..4 : <<"RAW", "CMT", "STMT", "EXPR">>[i] = cls

\* C16: at every point of mask_jinja the keys of the mapping are exactly J000000,
\* J000001, ... one per replacement made so far, counted from 0; the keys of an
\* earlier class are smaller than those of a later class, and within a class the
\* keys increase from left to right in the text.
C16_SequentialKeys ==
    /\ DOMAIN mapping = {KeyTable[n] : n \in 1..counter}
    /\ Cardinality(DOMAIN mapping) = counter
    /\ DOMAIN covers = DOMAIN mapping
    /\ \A k1, k2 \in DOMAIN covers :
         KeyNum(k1) < KeyNum(k2) =>
            /\ ClassRank(covers[k1][1]) <= ClassRank(covers[k2][1])
            /\ covers[k1][1] = covers[k2][1] => covers[k1][2] < covers[k2][2]

\* C16's case: masking has ended after three replacements or more, two of them of
\* one class and two of different classes.
C16_Witness ==
    /\ pc = "masked"
    /\ counter >= 3
    /\ \E k1, k2 \in DOMAIN covers : k1 # k2 /\ covers[k1][1] = covers[k2][1]
    /\ \E k1, k2 \in DOMAIN covers : covers[k1][1] # covers[k2][1]

---------------------------------------------------------------------------
(* Properties of the heading stages.                                       *)
(* What a heading call and its argument are is read off the template       *)
(* syntax here, not off the program's patterns: a call opens with {{ and   *)
(* the macro name, and its argument runs to the first ")" that is not      *)
(* inside a string literal.                                                *)

NoWrapperTags(t) == \A i \in 1..Len(t) : t[i] \notin WrapperTags

\* where the heading calls of a text open
Openers(t) ==
    {i \in 0..(Len(t) - 1) :
        Ch(t, i) = "{" /\ Ch(t, i + 1) = "{" /\ Ch(t, SkipSpace(t, i + 2)) \in HeadingWords}
ArgStart(t, i) == SkipSpace(t, i + 2) + 1

\* the first ")" from j on that is outside the string literals; Len(t) if none
RECURSIVE ArgClose(_, _)
ArgClose(t, j) ==
    IF j >= Len(t) THEN Len(t)
    ELSE IF Ch(t, j) = ")" THEN j
    ELSE IF STRING_LIT_RE(t, j) # -1 THEN ArgClose(t, STRING_LIT_RE(t, j))
    ELSE ArgClose(t, j + 1)

IsLiteralCall(t, i) == LITERAL_MACRO_RE(t, i) # NoCall

\* the string literal tokens <<start, end>> in the argument of the call at i
TokensOfCall(t, i) ==
    LET a == ArgStart(t, i)
        ls == StringLits(Slice(t, a, ArgClose(t, a)), 0)
    IN  {<<a + ls[n][1], a + ls[n][2]>> : n \in 1..Len(ls)}

\* the embedded literals of a text: the string literal tokens in the argument of
\* a heading call whose argument is not one pure string literal
EmbeddedTokens(t) ==
    UNION {TokensOfCall(t, i) : i \in {o \in Openers(t) : ~IsLiteralCall(t, o)}}
NonEmptyTokens(t) == {p \in EmbeddedTokens(t) : LiteralContent(Slice(t, p[1], p[2])) # <<>>}

\* a set of tokens in document order
RECURSIVE InOrder(_)
InOrder(S) ==
    IF S = {} THEN <<>>
    ELSE LET p == CHOOSE x \in S : \A y \in S : x[1] <= y[1]
         IN  <<p>> \o InOrder(S \ {p})

\* the text with each token of ps (in order) replaced by rep(n), n its place in ps
RECURSIVE ReplaceTokens(_, _, _, _, _)
ReplaceTokens(t, ps, reps, n, last) ==
    IF n > Len(ps) THEN Slice(t, last, Len(t))
    ELSE Slice(t, last, ps[n][1]) \o reps[n] \o ReplaceTokens(t, ps, reps, n + 1, ps[n][2])

\* the text with every embedded literal cut down to its quote character
Skeleton(t) ==
    LET ps == InOrder(EmbeddedTokens(t))
    IN  ReplaceTokens(t, ps, [n \in 1..Len(ps) |-> <<Ch(t, ps[n][1]), "LITERAL">>], 1, 0)

\* the places in the text of the literals the translator kept in its list spans
Collected ==
    {<<lit_spans[a][1] + lit_spans[a][3][b][1], lit_spans[a][1] + lit_spans[a][3][b][2]>> :
        <<a, b>> \in {x \in (1..Len(lit_spans)) \X (1..12) : x[2] <= Len(lit_spans[x[1]][3])}}

CanonicalCall(t, m) ==
    <<"{", "{", " ", HeadingWord(m.lvl)>> \o JsonDumps(LiteralContent(Slice(t, m.s, m.e)))
        \o <<")", " ", "}", "}">>
IsCanonical(t, m) == Slice(t, m.start, m.end) = CanonicalCall(t, m)
RECURSIVE CanonicalText(_, _, _)
CanonicalText(t, ms, last) ==
    IF ms = <<>> THEN Slice(t, last, Len(t))
    ELSE Slice(t, last, Head(ms).start) \o CanonicalCall(t, Head(ms))
            \o CanonicalText(t, Tail(ms), Head(ms).end)

C4_OnlyEmbeddedLiterals ==
    pc = "embedded" =>
        /\ Skeleton(html_text) = Skeleton(src)
        /\ \A r \in 1..Len(requests) : \A n \in 1..Len(requests[r].payload) :
             \E p \in EmbeddedTokens(src) :
                requests[r].payload[n] = LiteralContent(Slice(src, p[1], p[2]))

\* C5: no literal of a call whose argument is one pure string literal is taken by
\* the embedded-literal translator, and the literals of every other heading call
\* are all taken by it.
C5_ExactlyOneStage ==
    pc = "embedded" =>
        /\ \A p \in Collected : \A n \in 1..Len(LiteralCalls(src, 0)) :
              ~(LiteralCalls(src, 0)[n].start <= p[1] /\ p[2] <= LiteralCalls(src, 0)[n].end)
        /\ NonEmptyTokens(src) \subseteq Collected

\* C6: a document whose heading calls all have a pure string literal as argument,
\* or that has no non-empty embedded literal, leads to no vendor request and comes
\* back unchanged.
C6_NoRequest ==
    (pc = "embedded"
        /\ \/ (Openers(src) # {} /\ \A i \in Openers(src) : IsLiteralCall(src, i))
           \/ NonEmptyTokens(src) = {})
        => (requests = <<>> /\ html_text = src)

\* C7: with a non-empty embedded literal in the document there is exactly one
\* request, its payload the contents of the non-empty embedded literals in
\* document order, and the i-th answer stands where the i-th of them stood.
C7_OneOrderedRequest ==
    (pc = "embedded" /\ NonEmptyTokens(src) # {}) =>
        LET ps == InOrder(NonEmptyTokens(src))
            contents == [n \in 1..Len(ps) |-> LiteralContent(Slice(src, ps[n][1], ps[n][2]))]
            answers == VendorList(lmode, contents)
        IN  /\ Len(requests) = 1
            /\ requests[1].payload = contents
            /\ html_text = ReplaceTokens(src, ps,
                   [n \in 1..Len(ps) |->
                       IF Ch(src, ps[n][1]) = SQ THEN EscapeSingle(answers[n])
                       ELSE JsonDumps(answers[n])], 1, 0)

---------------------------------------------------------------------------
(* Properties of the runs.                                                 *)

StageOrder == <<"embed", "wrap", "mask", "request", "unmask", "restore">>
IsPrefix(a, b) == Len(a) <= Len(b) /\ a = SubSeq(b, 1, Len(a))
BodyRequests == SelectSeq(requests, LAMBDA r : r.kind = "body")
FullyMasked(t) == \A cls \in {"RAW", "CMT", "STMT", "EXPR"} : Search(cls, t) = NoMatch

\* C8: one call of translate_html_with_deepl runs embedded-literal translation,
\* literal-call rewriting, masking, one body request, unmasking and restoration in
\* this order; the literal request, if any, comes before the body request; there
\* is never more than one body request, and exactly one once the vendor has
\* answered; its payload is the text masking ended with, which holds no match of
\* any of the four construct classes.
C8_StageOrder ==
    /\ IsPrefix(stages, StageOrder)
    /\ Len(BodyRequests) <= 1
    /\ \A i \in 1..Len(requests) :
         /\ requests[i].kind = "body" =>
              /\ i = Len(requests)
              /\ Len(stages) >= 3
              /\ requests[i].payload = masked
              /\ FullyMasked(requests[i].payload)
         /\ requests[i].kind = "literals" => i = 1
    /\ pc \in {"translated", "unmasked", "keyerror", "restored", "done"}
         => Len(BodyRequests) = 1
    /\ pc \in {"restored", "done"} => stages = StageOrder

\* C8's case: a whole run that made both requests and masked something has ended.
C8_Witness ==
    /\ pc = "done"
    /\ stages = StageOrder
    /\ Len(requests) = 2
    /\ mapping # <<>>
    /\ output.written

\* C10: once a vendor translation request has failed the run is over and no output
\* file is written, whatever succeeded before the failure.
C10_AbortNoOutput ==
    failed => (pc = "aborted" /\ output = NoFile)

\* C10's case: a request has failed after an earlier request of the run succeeded.
C10_Witness ==
    /\ failed
    /\ Len(requests) >= 2

---------------------------------------------------------------------------
(* Properties of masking: termination.                                     *)

\* the classes whose pass is over
Exhausted ==
    IF pc = "mask" THEN {<<"RAW", "CMT", "STMT", "EXPR">>[i] : i \in 1..(pat - 1)}
    ELSE {"RAW", "CMT", "STMT", "EXPR"}

\* no class whose pass is over has a match in the text, and no match ever began or
\* ended at a placeholder the call had put in
C17_Clean ==
    /\ \A cls \in Exhausted : Search(cls, masked) = NoMatch
    /\ \A k \in DOMAIN covers : covers[k][2] # -1 /\ covers[k][3] # -1
    /\ \A k \in DOMAIN mapping : Len(mapping[k]) >= 4

\* C17: mask_jinja terminates on every input; a replacement never makes a match of
\* a class whose pass is over, the placeholder it puts in is never itself matched,
\* and the text it returns holds no match of any of the four classes.
C17_MaskTerminates == []C17_Clean /\ <>(pc # "mask")

\* C17's case: masking has returned after a statement pass that rewrote text
\* around a placeholder of the comment pass.
C17_Witness ==
    /\ pc = "masked"
    /\ FullyMasked(masked)
    /\ \E k \in DOMAIN mapping : HasPlaceholder(mapping[k])

---------------------------------------------------------------------------
(* Properties of chunking.                                                 *)

\* C14: every chunk chunk_text returns is non-empty (for a non-empty text) and at
\* most max_len long, and so is every chunk translate_text sends to the vendor.
C14_BoundedChunks ==
    (prog = "pdf" /\ pc = "chunks") =>
        /\ \A i \in 1..Len(chunks) : chunks[i] # <<>> /\ Len(chunks[i]) <= max_len
        /\ \A r \in 1..Len(requests) :
             requests[r].payload # <<>> /\ Len(requests[r].payload) <= max_len

\* the paragraphs of a text as it stands: the pieces between paragraph separators
Pieces(t) == Split(t)
\* the paragraphs of a text, normalised: carriage returns removed, each piece
\* stripped, the empty ones dropped
Paras(t) ==
    LET ps == Split(DropCR(t))
    IN  SelectSeq([i \in 1..Len(ps) |-> Strip(ps[i])], LAMBDA x : x # <<>>)
\* the paragraphs of a list of chunks, chunk after chunk
PiecesOf(cs) == Flatten([i \in 1..Len(cs) |-> Pieces(cs[i])])
ParasOf(cs) == Flatten([i \in 1..Len(cs) |-> Paras(cs[i])])
IdentityVendor == \A i \in 1..Len(outs) : outs[i] = chunks[i]

\* C15 as claimed: the chunks, in order and split on the paragraph separator, give
\* exactly the non-empty stripped paragraphs of the input.
C15_ExactParagraphs ==
    (prog = "pdf" /\ pc = "chunks") => PiecesOf(chunks) = Paras(src)

\* C15 as amended: the normalised paragraphs of the chunks, chunk after chunk, are
\* exactly the normalised paragraphs of the input (none lost, none added, none
\* moved); translate_text issues one request per chunk, in order, each with the
\* chunk as its payload; and with a vendor that answers every chunk with itself
\* the joined result has the normalised paragraphs of the input.
C15_ParagraphsKept ==
    prog = "pdf" =>
        /\ pc = "chunks" => ParasOf(chunks) = Paras(src)
        /\ pc \in {"chunks", "aborted"} =>
             /\ Len(requests) = Len(outs) + (IF failed THEN 1 ELSE 0)
             /\ \A r \in 1..Len(requests) :
                  requests[r].kind = "chunk" /\ requests[r].payload = chunks[r]
        /\ (pc \in {"joined", "done"} /\ src # <<>>) =>
             /\ Len(requests) = Len(chunks)
             /\ Len(outs) = Len(chunks)
             /\ translated = Join(outs)
             /\ IdentityVendor => Paras(translated) = Paras(src)

\* C15's case: a text of several paragraphs was cut into several chunks, each was
\* answered with itself, and the joined result was written.
C15_Witness ==
    /\ prog = "pdf"
    /\ pc = "done"
    /\ Len(chunks) >= 2
    /\ Len(Paras(src)) >= 2
    /\ IdentityVendor
    /\ \A i \in 1..Len(chunks) : chunks[i] # <<>>

---------------------------------------------------------------------------
(* Properties of the command-line entry points.                            *)

\* the run needs the vendor credential
NeedsKey == prog # "simple_jinja_dev_server" \/ env.translate

\* C11: in an entry point that needs the credential, a missing DEEPL_API_KEY ends
\* the run with a failure status before any work: nothing is read, rendered,
\* written or requested, at any time of the run.
C11_FailFast ==
    (NeedsKey /\ ~env.key) =>
        /\ effects = <<>>
        /\ pc = "exited" => exit_code = 1

\* the glossary name the run asks for, and the listed glossaries that have this
\* name, source language EN and target language DE (in either case)
Wanted == IF env.glossary = "auto" THEN "epd-EN-DE" ELSE env.glossary
Matching ==
    {i \in 1..Len(env.listing) :
        /\ env.listing[i].name = Wanted
        /\ env.listing[i].source_lang \in {"en", "EN"}
        /\ env.listing[i].target_lang \in {"de", "DE"}}
LookupFinds == env.glossary # "none" /\ env.listing_ok /\ Matching # {}

\* C12: in the entry points that look a glossary up, a lookup that raises or finds
\* no glossary of the requested name and language pair does not stop the run: the
\* translation is still made, with no glossary; and a translation is given a
\* glossary id only if the lookup found a glossary whose name and languages all
\* match, and then the id of such a glossary.
C12_GlossaryOptional ==
    prog \in Entries \ {"create_glossaries"} =>
        /\ \A r \in 1..Len(requests) :
             IF LookupFinds
             THEN requests[r].glossary \in {IdTable[i] : i \in Matching}
             ELSE requests[r].glossary = NoGlossary
        /\ (env.key /\ pc = "exited") =>
             /\ exit_code = 0
             /\ (NeedsKey /\ env.has_text) => Len(requests) = 1

\* C12's case: the lookup raised, and the run went on to translate without a
\* glossary and ended well.
C12_Witness ==
    /\ prog \in Entries \ {"create_glossaries"}
    /\ pc = "exited"
    /\ exit_code = 0
    /\ env.glossary # "none"
    /\ ~env.listing_ok
    /\ Len(requests) = 1
    /\ requests[1].glossary = NoGlossary

=============================================================================
